---- MODULE Spec2Model ----
(***************************************************************************)
(* Model of the Absorbance 96 SiLA2 client (src/pyonoy/client.py):         *)
(* one Absorbance96Client object driven by a caller that may invoke any    *)
(* public method in any order.                                             *)
(*                                                                         *)
(* Program state: channel, _lock_id.  Resources the program creates:       *)
(* grpc channels (created, open) and uuid4 lock ids (uuids), and the       *)
(* context managers whose with-block the caller is inside (stack).         *)
(* History variables (not fields of the program, they only record what     *)
(* the caller has observed): last, hist, workflow.                         *)
(***************************************************************************)
EXTENDS Integers, Sequences, FiniteSets, TLC

VARIABLES
    channel,    \* self.channel: None or the id of a grpc channel
    lock_id,    \* self._lock_id: None or the id of a uuid4 string
    created,    \* number of grpc channels created so far (ids 1..created)
    open,       \* ids of the channels created and not closed
    uuids,      \* number of uuid4 values drawn so far (ids 1..uuids)
    last,       \* the last method call and what the caller saw of it
    hist,       \* the three most recent calls that returned normally
    workflow,   \* readout stage implied by the commands that returned normally
    stack,      \* the with-blocks the caller is inside, innermost last
    uri,        \* the argument given to load_workspace
    sent,       \* the values the uri normalisation has produced, in order
    pc,         \* where each concurrent caller stands in the method it runs
    config,     \* the SiLAConfig whose to_cli_args is called
    args        \* the list to_cli_args returned

vars == <<channel, lock_id, created, open, uuids, last, hist, workflow, stack,
          uri, sent, pc, config, args>>

\* what only the specifications SpecURI, SpecThreads and SpecCLI change
apart == <<uri, sent, pc, config, args>>

----------------------------------------------------------------------------
(* Bounds of the model *)

\* grpc channels the caller may create in one run (every connect creates one)
MaxChannels == 3
\* uuid4 lock ids the caller may draw in one run (every acquire_lock draws one)
MaxLocks == 3
\* the attempt budget the caller expects of connect; the server becomes
\* ready at attempt 1..MaxAttempts, or not within the budget (MaxAttempts+1)
MaxAttempts == 3
\* with-blocks the caller may nest
MaxNest == 2
\* path segments in a uri given to load_workspace
MaxSegs == 2
\* threads that call methods of the one client at the same time
MaxThreads == 2

----------------------------------------------------------------------------
(* Values *)

\* Python's None for the two Optional fields
None == 0

\* the number of readiness waits one connect() performs: a single
\* grpc.channel_ready_future(...).result(timeout=10), with no loop around it
ReadyWaits == 1

Commands ==
    {"load_workspace", "prepare_for_readout", "perform_readout",
     "export_results", "get_results", "quit_application"}

LockOps == {"acquire_lock", "release_lock"}

\* what the caller sees of a call: its name, how it ended ("ok" or the
\* exception raised), the value returned, and for connect the number of
\* readiness waits made and the attempt at which the server was ready
Outcome(op, result, value, attempts, readyAt) ==
    [op |-> op, result |-> result, value |-> value,
     attempts |-> attempts, readyAt |-> readyAt]

Call(op, result) == Outcome(op, result, "none", 0, 0)

\* no uri under study, no concurrent callers
NoUri == [is_path |-> FALSE, head |-> "", segs |-> <<>>]

NoThreads == <<>>

\* no SiLAConfig under study, to_cli_args not called
NoConfig == <<>>

NoArgs == <<>>

\* the value of hist for a caller whose calls are not being recorded
NoHistory == <<"off", "off", "off">>

\* hist after a call: calls that raise leave no entry
Record(h, op, result) ==
    IF result = "ok" /\ h # NoHistory THEN <<h[2], h[3], op>> ELSE h

\* the stage a command that returned normally leaves the readout in
\* (history only: the client keeps no such field)
StageAfter(op, stage) ==
    CASE op = "load_workspace"      -> "WorkspaceLoaded"
      [] op = "prepare_for_readout" -> "Prepared"
      [] op = "perform_readout"     -> "ReadoutPerformed"
      [] op = "quit_application"    -> "Terminated"
      [] OTHER                      -> stage

Observe(op, result, stage) ==
    IF result = "ok" THEN StageAfter(op, stage) ELSE stage

----------------------------------------------------------------------------
(* Absorbance96Client *)

\* __init__: no channel, no lock
Init ==
    /\ channel = None
    /\ lock_id = None
    /\ created = 0
    /\ open = {}
    /\ uuids = 0
    /\ last = Call("__init__", "ok")
    /\ hist = <<"none", "none", "__init__">>
    /\ workflow = "Idle"
    /\ stack = <<>>
    /\ uri = NoUri
    /\ sent = <<>>
    /\ pc = NoThreads
    /\ config = NoConfig
    /\ args = NoArgs

\* a connection check that never raises
ensure_connected_never_raises(ch) == TRUE

\* _ensure_connected passes (does not raise "Not connected")
ensure_connected(ch) == ch # None

\* _ensure_locked passes (does not raise "No lock held")
ensure_locked(lk) == lk # None

\* the two checks made in the other order
Checks_lock_first(ch, lk) ==
    IF ~ensure_locked(lk) THEN "NoLock"
    ELSE IF ~ensure_connected(ch) THEN "NotConnected"
    ELSE "ok"

\* the two checks every ApplicationController command starts with, in order
Checks(ch, lk) ==
    IF ~ensure_connected(ch) THEN "NotConnected"
    ELSE IF ~ensure_locked(lk) THEN "NoLock"
    ELSE "ok"

\* connect(): a new channel is assigned to self.channel before readiness is
\* awaited; the channel it replaces is not closed.  credentials_ok = FALSE is
\* open(cert_path) raising before any channel is made.
Connect(op) ==
    /\ created < MaxChannels
    /\ \E credentials_ok \in BOOLEAN, readyAt \in 1..(MaxAttempts + 1) :
         IF ~credentials_ok
         THEN /\ last' = Call(op, "OSError")
              /\ hist' = hist
              /\ UNCHANGED <<channel, created, open>>
         ELSE LET result == IF readyAt <= ReadyWaits THEN "ok" ELSE "ConnectionError"
              IN  /\ created' = created + 1
                  /\ channel' = created + 1
                  /\ open' = open \cup {created + 1}
                  /\ last' = Outcome(op, result, "none", ReadyWaits, readyAt)
                  /\ hist' = Record(hist, op, result)
    /\ UNCHANGED <<lock_id, uuids, workflow, apart>>

connect == Connect("connect") /\ UNCHANGED stack

\* a disconnect that forgets the channel without closing it
disconnect_without_close ==
    /\ channel' = None
    /\ last' = Call("disconnect", "ok")
    /\ hist' = Record(hist, "disconnect", "ok")
    /\ UNCHANGED <<lock_id, created, open, uuids, workflow, stack, apart>>

\* disconnect(): closes and forgets the channel if there is one; `value`
\* is what the caller gets back
Disconnect(op, value) ==
    /\ IF channel # None
       THEN /\ open' = open \ {channel}
            /\ channel' = None
       ELSE UNCHANGED <<channel, open>>
    /\ last' = Outcome(op, "ok", value, 0, 0)
    /\ hist' = Record(hist, op, "ok")
    /\ UNCHANGED <<lock_id, created, uuids, workflow, apart>>

disconnect == Disconnect("disconnect", "none") /\ UNCHANGED stack

\* acquire_lock(): a fresh uuid4 on every call
AcquireLock(op) ==
    /\ IF ~ensure_connected(channel)
       THEN /\ last' = Call(op, "NotConnected")
            /\ hist' = hist
            /\ UNCHANGED <<lock_id, uuids>>
       ELSE /\ uuids < MaxLocks
            /\ uuids' = uuids + 1
            /\ lock_id' = uuids + 1
            /\ last' = Outcome(op, "ok", "lock_id", 0, 0)
            /\ hist' = Record(hist, op, "ok")
    /\ UNCHANGED <<channel, created, open, workflow, apart>>

acquire_lock == AcquireLock("acquire_lock") /\ UNCHANGED stack

\* a release that raises when no lock is held
release_lock_raises_when_not_locked ==
    /\ LET result == IF ~ensure_connected(channel) THEN "NotConnected"
                     ELSE IF lock_id = None THEN "NotLocked" ELSE "ok"
       IN  /\ lock_id' = IF result = "ok" THEN None ELSE lock_id
           /\ last' = Call("release_lock", result)
           /\ hist' = Record(hist, "release_lock", result)
    /\ UNCHANGED <<channel, created, open, uuids, workflow, stack, apart>>

\* release_lock(): forgets the lock if one is held, nothing otherwise;
\* `value` is what the caller gets back
ReleaseLock(op, value) ==
    /\ IF ~ensure_connected(channel)
       THEN /\ last' = Call(op, "NotConnected")
            /\ hist' = hist
            /\ UNCHANGED lock_id
       ELSE /\ lock_id' = None
            /\ last' = Outcome(op, "ok", value, 0, 0)
            /\ hist' = Record(hist, op, "ok")
    /\ UNCHANGED <<channel, created, open, uuids, workflow, apart>>

release_lock == ReleaseLock("release_lock", "none") /\ UNCHANGED stack

\* Absorbance96Client.__enter__: connect(); the with-block is entered only
\* if connect returned
ClientScope == [kind |-> "client", lock_id |-> None]

client_enter ==
    /\ Len(stack) < MaxNest
    /\ Connect("__enter__")
    /\ stack' = IF last'.result = "ok" THEN Append(stack, ClientScope) ELSE stack

\* the innermost with-block and the blocks around it
Top(st) == st[Len(st)]

Pop(st) == SubSeq(st, 1, Len(st) - 1)

\* how a with-block is left: by its last statement, or by an exception
\* raised in its body, which __exit__ (returning False) lets propagate
Leave(raised) == IF raised THEN "propagates" ELSE "none"

\* Absorbance96Client.__exit__: disconnect(), return False
client_exit ==
    /\ stack # <<>>
    /\ Top(stack).kind = "client"
    /\ \E raised \in BOOLEAN : Disconnect("__exit__", Leave(raised))
    /\ stack' = Pop(stack)

\* _LockContext.__enter__: lock_id = client.acquire_lock(), kept in the
\* context and returned to the with statement
lock_enter ==
    /\ Len(stack) < MaxNest
    /\ AcquireLock("lock.__enter__")
    /\ stack' = IF last'.result = "ok"
                THEN Append(stack, [kind |-> "lock", lock_id |-> lock_id'])
                ELSE stack

\* a lock context that keeps the lock when its body raised
lock_exit_keeps_lock_on_error ==
    /\ stack # <<>>
    /\ Top(stack).kind = "lock"
    /\ \/ ReleaseLock("lock.__exit__", Leave(FALSE))
       \/ /\ last' = Outcome("lock.__exit__", "ok", Leave(TRUE), 0, 0)
          /\ hist' = Record(hist, "lock.__exit__", "ok")
          /\ UNCHANGED <<channel, lock_id, created, open, uuids, workflow, apart>>
    /\ stack' = Pop(stack)

\* _LockContext.__exit__: client.release_lock(), return False
lock_exit ==
    /\ stack # <<>>
    /\ Top(stack).kind = "lock"
    /\ \E raised \in BOOLEAN : ReleaseLock("lock.__exit__", Leave(raised))
    /\ stack' = Pop(stack)

\* what every ApplicationController command does: the two checks, then its
\* local statements, which end as `body` ("ok" or the exception they raise),
\* then nothing (the gRPC call is not made), returning `value`
Run(op, value, body) ==
    LET checked == Checks(channel, lock_id)
        result == IF checked = "ok" THEN body ELSE checked
    IN  /\ last' = Outcome(op, result, IF result = "ok" THEN value ELSE "none", 0, 0)
        /\ hist' = Record(hist, op, result)
        /\ workflow' = Observe(op, result, workflow)
        /\ UNCHANGED <<channel, lock_id, created, open, uuids, stack, apart>>

\* a command whose local statements cannot raise
Command(op, value) == Run(op, value, "ok")

\* load_workspace(uri): after the checks a uri without a scheme goes through
\* Path(uri).resolve().as_uri(), which raises for a path that cannot be
\* resolved (resolves = FALSE)
load_workspace ==
    \E resolves \in BOOLEAN :
        Run("load_workspace", "none", IF resolves THEN "ok" ELSE "ValueError")

prepare_for_readout == Command("prepare_for_readout", "none")

\* a perform_readout that gives up the lock before it checks anything
perform_readout_drops_lock ==
    LET result == Checks(channel, None)
    IN  /\ lock_id' = None
        /\ last' = Call("perform_readout", result)
        /\ hist' = Record(hist, "perform_readout", result)
        /\ workflow' = Observe("perform_readout", result, workflow)
        /\ UNCHANGED <<channel, created, open, uuids, stack, apart>>

perform_readout == Command("perform_readout", "none")

export_results == Command("export_results", "none")

\* get_results(): returns b""
get_results == Command("get_results", "empty_bytes")

quit_application == Command("quit_application", "none")

Next ==
    \/ connect
    \/ disconnect
    \/ acquire_lock
    \/ release_lock
    \/ load_workspace
    \/ prepare_for_readout
    \/ perform_readout
    \/ export_results
    \/ get_results
    \/ quit_application

\* a caller that invokes the methods directly
Spec == Init /\ [][Next]_vars

\* a caller that also uses the client and its lock() as context managers;
\* the history of completed calls is not recorded here
InitWith ==
    /\ channel = None
    /\ lock_id = None
    /\ created = 0
    /\ open = {}
    /\ uuids = 0
    /\ last = Call("__init__", "ok")
    /\ hist = NoHistory
    /\ workflow = "Idle"
    /\ stack = <<>>
    /\ uri = NoUri
    /\ sent = <<>>
    /\ pc = NoThreads
    /\ config = NoConfig
    /\ args = NoArgs

NextWith ==
    \/ connect
    \/ disconnect
    \/ acquire_lock
    \/ release_lock
    \/ client_enter
    \/ client_exit
    \/ lock_enter
    \/ lock_exit
    \/ load_workspace
    \/ prepare_for_readout
    \/ perform_readout
    \/ export_results
    \/ get_results
    \/ quit_application

SpecWith == InitWith /\ [][NextWith]_vars

----------------------------------------------------------------------------
(* load_workspace: normalisation of the uri argument *)

\* A string is a head followed by segments joined with "/": "a/b" is head ""
\* with <<"a", "b">>, "/a" is head "/" with <<"a">>, "https://a/b" is head
\* "https://" with <<"a", "b">>, "file:///cwd" is head "file://" with
\* <<"", "cwd">>.  is_path tells a pathlib.Path made of that text from a str.
Text(is_path, head, segs) == [is_path |-> is_path, head |-> head, segs |-> segs]

\* the prefixes load_workspace lets through
Schemes == {"file://", "http://", "https://"}

\* how the arguments start: a recognised scheme, a scheme in upper case, a
\* scheme with one slash, an absolute path, or nothing (a relative path)
Heads == Schemes \cup {"FILE://", "file:/", "/", "//", ""}

Names == {"a", "b c", ".", ".."}

SeqsUpTo(S, n) == UNION { [1..k -> S] : k \in 0..n }

Inputs ==
    { Text(is_path, head, segs) :
        is_path \in BOOLEAN, head \in Heads, segs \in SeqsUpTo(Names, MaxSegs) }

\* os.getcwd(), which Path.resolve() puts before a relative path
Cwd == <<"cwd">>

\* a prefix test that knows file:// only
startswith_file_only(u) == u.head = "file://"

\* uri.startswith(('file://', 'http://', 'https://'))
startswith(u) == u.head \in Schemes

\* the first path component a head that is no root leaves in Path(text)
HeadPart(head) ==
    CASE head \in {"file://", "file:/"} -> <<"file:">>
      [] head = "http://"  -> <<"http:">>
      [] head = "https://" -> <<"https:">>
      [] head = "FILE://"  -> <<"FILE:">>
      [] OTHER             -> <<>>

Kept(seg) == seg \notin {"", "."}

\* Path(text): repeated slashes and "." components are dropped
PathOf(u) ==
    [absolute |-> u.head \in {"/", "//"},
     parts |-> HeadPart(u.head) \o SelectSeq(u.segs, Kept)]

RECURSIVE Walk(_, _)
\* the components of a path followed from `at`, ".." going one up and
\* staying at the root
Walk(at, parts) ==
    IF parts = <<>> THEN at
    ELSE IF Head(parts) = ".."
         THEN Walk(IF at = <<>> THEN at ELSE SubSeq(at, 1, Len(at) - 1), Tail(parts))
         ELSE Walk(Append(at, Head(parts)), Tail(parts))

\* Path.resolve(): the absolute path, from the working directory when the
\* path is relative (no symbolic links on the way)
resolve(path) == Walk(IF path.absolute THEN <<>> ELSE Cwd, path.parts)

\* urllib's quoting of one component, as as_uri() applies it
Quote(seg) ==
    CASE seg = "b c"    -> "b%20c"
      [] seg = "file:"  -> "file%3A"
      [] seg = "http:"  -> "http%3A"
      [] seg = "https:" -> "https%3A"
      [] seg = "FILE:"  -> "FILE%3A"
      [] OTHER          -> seg

\* Path.as_uri() of an absolute path: "file://" and the quoted path
as_uri(parts) ==
    Text(FALSE, "file://",
         IF parts = <<>> THEN <<"", "">>
         ELSE <<"">> \o [i \in 1..Len(parts) |-> Quote(parts[i])])

\* the value of uri after the if / elif of load_workspace
Normalize(u) ==
    IF u.is_path THEN as_uri(resolve(PathOf(u)))
    ELSE IF ~startswith(u) THEN as_uri(resolve(PathOf(u)))
    ELSE u

\* the normalisation applied to the argument, and then to its own result
normalize_uri ==
    /\ Len(sent) < 2
    /\ sent' = Append(sent, Normalize(IF sent = <<>> THEN uri ELSE sent[Len(sent)]))
    /\ UNCHANGED <<channel, lock_id, created, open, uuids, last, hist,
                   workflow, stack, uri, pc, config, args>>

InitURI ==
    /\ channel = None
    /\ lock_id = None
    /\ created = 0
    /\ open = {}
    /\ uuids = 0
    /\ last = Call("__init__", "ok")
    /\ hist = NoHistory
    /\ workflow = "Idle"
    /\ stack = <<>>
    /\ uri \in Inputs
    /\ sent = <<>>
    /\ pc = NoThreads
    /\ config = NoConfig
    /\ args = NoArgs

NextURI == normalize_uri

SpecURI == InitURI /\ [][NextURI]_vars

----------------------------------------------------------------------------
(* Several threads calling the one client.  The class holds no mutex and   *)
(* no queue, so a method runs as the statements it is made of, and a       *)
(* statement of one thread may run between two statements of another.      *)

Threads == 1..MaxThreads

\* a thread that is not inside a method of the client
Idle == [op |-> "none", at |-> "idle"]

Calls == Commands \cup LockOps \cup {"disconnect"}

\* thread t moves to statement `at` of the method it runs
Goto(t, at) == pc' = [pc EXCEPT ![t] = [op |-> pc[t].op, at |-> at]]

\* the method thread t runs ends: normally with `value`, or raising `result`
Return(t, result, value) ==
    /\ pc' = [pc EXCEPT ![t] = Idle]
    /\ last' = Outcome(pc[t].op, result, value, 0, 0)

\* what no statement of these methods touches
Rest == <<created, hist, workflow, stack, uri, sent, config, args>>

\* thread t calls a method
t_call(t) ==
    /\ pc[t] = Idle
    /\ \E op \in Calls :
          pc' = [pc EXCEPT ![t] =
                    [op |-> op,
                     at |-> IF op = "disconnect" THEN "if_channel"
                            ELSE "ensure_connected"]]
    /\ UNCHANGED <<channel, lock_id, open, uuids, last, Rest>>

\* self._ensure_connected(), the first statement of every method but disconnect
t_ensure_connected(t) ==
    /\ pc[t].at = "ensure_connected"
    /\ IF ~ensure_connected(channel)
       THEN Return(t, "NotConnected", "none")
       ELSE /\ Goto(t, CASE pc[t].op = "acquire_lock" -> "assign"
                         [] pc[t].op = "release_lock" -> "if_lock_id"
                         [] OTHER                     -> "ensure_locked")
            /\ UNCHANGED last
    /\ UNCHANGED <<channel, lock_id, open, uuids, Rest>>

\* self._ensure_locked(), the second statement of every command
t_ensure_locked(t) ==
    /\ pc[t].at = "ensure_locked"
    /\ IF ~ensure_locked(lock_id)
       THEN Return(t, "NoLock", "none")
       ELSE Goto(t, "return") /\ UNCHANGED last
    /\ UNCHANGED <<channel, lock_id, open, uuids, Rest>>

\* the rest of a command: nothing is sent, the method returns
t_return(t) ==
    /\ pc[t].at = "return"
    /\ Return(t, "ok", IF pc[t].op = "get_results" THEN "empty_bytes" ELSE "none")
    /\ UNCHANGED <<channel, lock_id, open, uuids, Rest>>

\* acquire_lock: self._lock_id = str(uuid.uuid4())
t_assign(t) ==
    /\ pc[t].at = "assign"
    /\ uuids < MaxLocks
    /\ uuids' = uuids + 1
    /\ lock_id' = uuids + 1
    /\ Goto(t, "return_lock_id")
    /\ UNCHANGED <<channel, open, last, Rest>>

\* acquire_lock: return self._lock_id, read again from the field
t_return_lock_id(t) ==
    /\ pc[t].at = "return_lock_id"
    /\ Return(t, "ok", IF lock_id = None THEN "None" ELSE "lock_id")
    /\ UNCHANGED <<channel, lock_id, open, uuids, Rest>>

\* release_lock: if self._lock_id
t_if_lock_id(t) ==
    /\ pc[t].at = "if_lock_id"
    /\ IF lock_id # None
       THEN Goto(t, "clear_lock_id") /\ UNCHANGED last
       ELSE Return(t, "ok", "none")
    /\ UNCHANGED <<channel, lock_id, open, uuids, Rest>>

\* release_lock: self._lock_id = None
t_clear_lock_id(t) ==
    /\ pc[t].at = "clear_lock_id"
    /\ lock_id' = None
    /\ Return(t, "ok", "none")
    /\ UNCHANGED <<channel, open, uuids, Rest>>

\* disconnect: if self.channel
t_if_channel(t) ==
    /\ pc[t].at = "if_channel"
    /\ IF channel # None
       THEN Goto(t, "close") /\ UNCHANGED last
       ELSE Return(t, "ok", "none")
    /\ UNCHANGED <<channel, lock_id, open, uuids, Rest>>

\* disconnect: self.channel.close(), the field read again
t_close(t) ==
    /\ pc[t].at = "close"
    /\ IF channel # None
       THEN /\ open' = open \ {channel}
            /\ Goto(t, "clear_channel")
            /\ UNCHANGED last
       ELSE /\ Return(t, "AttributeError", "none")
            /\ UNCHANGED open
    /\ UNCHANGED <<channel, lock_id, uuids, Rest>>

\* disconnect: self.channel = None
t_clear_channel(t) ==
    /\ pc[t].at = "clear_channel"
    /\ channel' = None
    /\ Return(t, "ok", "none")
    /\ UNCHANGED <<lock_id, open, uuids, Rest>>

\* the client after connect() has returned, shared by the threads
InitThreads ==
    /\ channel = 1
    /\ lock_id = None
    /\ created = 1
    /\ open = {1}
    /\ uuids = 0
    /\ last = Outcome("connect", "ok", "none", ReadyWaits, ReadyWaits)
    /\ hist = NoHistory
    /\ workflow = "Idle"
    /\ stack = <<>>
    /\ uri = NoUri
    /\ sent = <<>>
    /\ pc = [t \in Threads |-> Idle]
    /\ config = NoConfig
    /\ args = NoArgs

NextThreads ==
    \E t \in Threads :
        \/ t_call(t)
        \/ t_ensure_connected(t)
        \/ t_ensure_locked(t)
        \/ t_return(t)
        \/ t_assign(t)
        \/ t_return_lock_id(t)
        \/ t_if_lock_id(t)
        \/ t_clear_lock_id(t)
        \/ t_if_channel(t)
        \/ t_close(t)
        \/ t_clear_channel(t)

SpecThreads == InitThreads /\ [][NextThreads]_vars

----------------------------------------------------------------------------
(* SiLAConfig.to_cli_args (src/pyonoy/launcher.py).  A str is the sequence *)
(* of the pieces it is written with ("" is <<>>); an Optional field is     *)
(* either none or holds a value.                                           *)

\* SiLAConfig.port = 50051, the default that to_cli_args compares with
DefaultPort == 50051

\* SiLAConfig.ip = "127.0.0.1"
DefaultIp == <<"127.0.0.1">>

\* Optional[...] = None, and a field that holds the value v
Unset == [none |-> TRUE, text |-> <<>>]

Some(v) == [none |-> FALSE, text |-> v]

\* str(n) for an int: its decimal digits, "-" first when negative
Digit(d) == <<"0", "1", "2", "3", "4", "5", "6", "7", "8", "9">>[d + 1]

RECURSIVE Digits(_)
Digits(n) ==
    IF n < 10 THEN <<Digit(n)>> ELSE Append(Digits(n \div 10), Digit(n % 10))

str(n) == IF n < 0 THEN <<"-">> \o Digits(-n) ELSE Digits(n)

\* truth value of an Optional[str]: None and "" are false
truthy_str(x) == ~x.none /\ x.text # <<>>

\* truth value of an Optional[Path]: only None is false, a Path never is
truthy_path(x) == ~x.none

\* str(p) of a Path: the path as written; Path("") is "."
str_path(x) == IF x.text = <<>> THEN <<".">> ELSE x.text

\* a port test that asks whether a port is given at all
port_differs_as_truth(c) == c.port # 0

\* self.port != 50051
port_differs(c) == c.port # DefaultPort

\* args.extend([flag, value]) when `cond`, args.append(flag) for a switch
extend(cond, flag, value) == IF cond THEN <<<<flag>>, value>> ELSE <<>>

append(cond, flag) == IF cond THEN <<<<flag>>>> ELSE <<>>

to_cli_args(c) ==
       <<<<"--sila">>>>
    \o extend(port_differs(c), "--sila-port", str(c.port))
    \o extend(c.ip # DefaultIp, "--sila-ip", c.ip)
    \o append(c.insecure, "--sila-insecure")
    \o append(c.headless, "--headless")
    \o extend(truthy_str(c.uuid), "--sila-uuid", c.uuid.text)
    \o extend(truthy_path(c.ca_cert), "--sila-ca-cert", str_path(c.ca_cert))
    \o extend(truthy_path(c.cert), "--sila-cert", str_path(c.cert))
    \o extend(truthy_path(c.key), "--sila-key", str_path(c.key))
    \o extend(truthy_path(c.out_cert), "--sila-out-cert", str_path(c.out_cert))

\* SiLAConfig(...) as a caller may build it
SiLAConfig(port, ip, insecure, headless, uuid, ca_cert, cert, key, out_cert) ==
    [port |-> port, ip |-> ip, insecure |-> insecure, headless |-> headless,
     uuid |-> uuid, ca_cert |-> ca_cert, cert |-> cert, key |-> key,
     out_cert |-> out_cert]

Ports == {DefaultPort, DefaultPort + 1, 0, -1}

Ips == {DefaultIp, <<"0.0.0.0">>, <<>>}

Uuids == {Unset, Some(<<>>), Some(<<"test-uuid">>)}

Paths == {Unset, Some(<<>>), Some(<<"/c/", "ca.pem">>)}

Configs ==
    {SiLAConfig(p, i, s, h, u, ca, ce, k, o) :
        p \in Ports, i \in Ips, s \in BOOLEAN, h \in BOOLEAN, u \in Uuids,
        ca \in Paths, ce \in {Unset, Some(<<"cert.pem">>)},
        k \in {Unset, Some(<<"key.pem">>)}, o \in {Unset, Some(<<"out.pem">>)}}

\* config.to_cli_args()
call_to_cli_args ==
    /\ args = NoArgs
    /\ args' = to_cli_args(config)
    /\ UNCHANGED <<channel, lock_id, created, open, uuids, last, hist,
                   workflow, stack, uri, sent, pc, config>>

InitCLI ==
    /\ channel = None
    /\ lock_id = None
    /\ created = 0
    /\ open = {}
    /\ uuids = 0
    /\ last = Call("__init__", "ok")
    /\ hist = NoHistory
    /\ workflow = "Idle"
    /\ stack = <<>>
    /\ uri = NoUri
    /\ sent = <<>>
    /\ pc = NoThreads
    /\ config \in Configs
    /\ args = NoArgs

NextCLI == call_to_cli_args

SpecCLI == InitCLI /\ [][NextCLI]_vars

----------------------------------------------------------------------------
(* Properties *)

Executed(op) == last.op = op /\ last.result = "ok"

\* C1: every instrument command that executes is immediately preceded by its
\* own renewal cycle, one unlock call followed by one lock call, so that the
\* two calls completed just before it are release_lock and then acquire_lock.
C1_RenewalBeforeEveryCommand ==
    (last.op \in Commands /\ last.result = "ok")
        => (hist[1] = "release_lock" /\ hist[2] = "acquire_lock")

\* C2: prepare_for_readout called on a connected session while no workspace
\* has been loaded (stage Idle) fails and leaves the stage at Idle, with or
\* without a lock held.
C2_PrepareNeedsWorkspace ==
    [][ (channel # None /\ workflow = "Idle"
            /\ last'.op = "prepare_for_readout")
        => (last'.result # "ok" /\ workflow' = "Idle") ]_vars

\* C3: perform_readout succeeds only from stage Prepared; from any other
\* stage it fails and does not change the stage.
C3_ReadoutNeedsPrepared ==
    [][ (workflow # "Prepared" /\ last'.op = "perform_readout")
        => (last'.result # "ok" /\ workflow' = workflow) ]_vars

\* C4: in stage ReadoutPerformed get_results and export_results succeed and
\* leave the stage at ReadoutPerformed, however often and in whatever order
\* they are called; in stages Idle, WorkspaceLoaded and Prepared they fail.
C4_ResultsNeedReadout ==
    [][ (channel # None /\ last'.op \in {"get_results", "export_results"})
        => /\ (workflow = "ReadoutPerformed" /\ lock_id # None)
                => (last'.result = "ok" /\ workflow' = "ReadoutPerformed")
           /\ workflow \in {"Idle", "WorkspaceLoaded", "Prepared"}
                => last'.result # "ok" ]_vars

\* C5: once load_workspace has succeeded after a prepare_for_readout or a
\* perform_readout, the stage is WorkspaceLoaded again and the next call to
\* complete is not perform_readout, get_results or export_results.
C5_LoadSupersedesPreparation ==
    (hist[1] \in {"prepare_for_readout", "perform_readout"}
        /\ hist[2] = "load_workspace")
        => hist[3] \notin {"perform_readout", "get_results", "export_results"}

\* C6: quit_application invoked on a connected session in any stage but
\* Terminated leaves the stage at Terminated.
C6_QuitAlwaysTerminates ==
    [][ (channel # None /\ workflow # "Terminated"
            /\ last'.op = "quit_application")
        => workflow' = "Terminated" ]_vars

C8_ConnectRetriesUpToBudget ==
    (last.op = "connect" /\ last.result \in {"ok", "ConnectionError"})
        => IF last.readyAt <= MaxAttempts
           THEN last.result = "ok" /\ last.attempts = last.readyAt
           ELSE last.result = "ConnectionError" /\ last.attempts = MaxAttempts

\* C9: the unlock step (release_lock) never surfaces "not locked": on a
\* connected session it returns normally whether or not a lock is held, and
\* no lock is held afterwards, so the lock call can follow.  Its only other
\* failure, not connected, is raised as it is, with the lock untouched and
\* no lock call made.
C9_UnlockNotLockedIsSilent ==
    [][ last'.op = "release_lock"
        => IF channel # None
           THEN last'.result = "ok" /\ lock_id' = None /\ channel' = channel
           ELSE last'.result = "NotConnected" /\ UNCHANGED <<lock_id, uuids>> ]_vars

\* a release with no lock held returned normally and the lock call after it
\* went through
C9_Witness ==
    /\ hist = <<"release_lock", "release_lock", "acquire_lock">>
    /\ Executed("acquire_lock")
    /\ lock_id # None

\* C10: on a disconnected session (no channel) every command and every lock
\* operation fails with "Not connected" and changes neither the stage, the
\* lock held nor the channel.
C10_DisconnectedCallsFail ==
    [][ (channel = None /\ last'.op \in Commands \cup LockOps)
        => /\ last'.result = "NotConnected"
           /\ UNCHANGED <<workflow, lock_id, channel, open, uuids>> ]_vars

\* load_workspace was refused right after a disconnect, before any workspace
\* was ever loaded
C10_Witness ==
    /\ last.op = "load_workspace"
    /\ last.result = "NotConnected"
    /\ hist[3] = "disconnect"
    /\ channel = None
    /\ workflow = "Idle"

\* C11: on a connected session with no lock held every command fails with
\* "No lock held" and does nothing else; the connection is checked before the
\* lock, so that without a channel the failure is "Not connected" even when
\* no lock is held either.
C11_CommandsNeedLock ==
    [][ last'.op \in Commands
        => /\ (channel # None /\ lock_id = None)
                => /\ last'.result = "NoLock"
                   /\ UNCHANGED <<workflow, channel, lock_id, open, uuids>>
           /\ channel = None => last'.result = "NotConnected"
           /\ last'.result = "ok" => (channel # None /\ lock_id # None) ]_vars

\* a command was refused for want of a lock on a connected session whose
\* lock had been released
C11_Witness ==
    /\ last.op = "get_results"
    /\ last.result = "NoLock"
    /\ hist[3] = "release_lock"
    /\ channel # None
    /\ lock_id = None

\* C12: for a caller that connects and never acquires a lock itself, no
\* command is refused for want of a lock, and get_results returns bytes that
\* are not empty.
C12_ScriptRunsWithoutCallerLock ==
    /\ (uuids = 0 /\ channel # None /\ last.op \in Commands)
          => last.result # "NoLock"
    /\ Executed("get_results") => last.value # "empty_bytes"

\* C13: all lock acquisitions of a session use one lock id: once an id has
\* been drawn, acquire_lock holds that id again and draws no other.
C13_OneLockIdPerSession ==
    [][ (uuids > 0 /\ last'.op = "acquire_lock" /\ last'.result = "ok")
        => (uuids' = uuids /\ lock_id' = uuids) ]_vars

\* thread t has run a statement of a command or of a lock method and has
\* not returned from it
InFlight(t) ==
    /\ pc[t].op \in Commands \cup LockOps
    /\ pc[t].at # "ensure_connected"

\* C14: when several callers invoke commands on the same client at the same
\* time, the client serializes them: at no moment are two callers part-way
\* through the lock check, lock change or call of a command.
C14_CommandsAreSerialized ==
    Cardinality({t \in Threads : InFlight(t)}) <= 1

\* C15: whatever connects are made, no channel other than the current one
\* is open: a channel that connect replaced has been closed.
C15_ReplacedChannelIsClosed ==
    open \subseteq {channel}

\* C16: disconnect never raises; it closes the channel if there is one and
\* leaves the session without a channel (nothing changes when there was
\* none), touching nothing else; and a connect made afterwards that finds
\* the server ready installs an open channel again.
C16_DisconnectClosesAndIsRepeatable ==
    [][ /\ last'.op = "disconnect"
            => /\ last'.result = "ok"
               /\ channel' = None
               /\ open' = open \ {channel}
               /\ channel = None => open' = open
               /\ UNCHANGED <<lock_id, workflow, created>>
        /\ (last'.op = "connect" /\ last'.result = "ok")
            => (channel' # None /\ channel' \in open') ]_vars

\* a channel was closed, the session was disconnected twice in a row and
\* then connected again
C16_Witness ==
    /\ hist = <<"disconnect", "disconnect", "connect">>
    /\ Executed("connect")
    /\ channel \in open
    /\ Cardinality(open) < created

\* C19: Terminated is terminal: once quit_application has run, the stage
\* stays Terminated and no command succeeds any more.
C19_TerminatedIsTerminal ==
    [][ workflow = "Terminated"
        => /\ workflow' = "Terminated"
           /\ last'.op \in Commands => last'.result # "ok" ]_vars

\* C17: a with-block on the client releases the channel on every way out:
\* after __exit__, however the body ended, the session has no channel, and
\* when connect fails on entry with ConnectionError the channel it created
\* is not left open.
C17_ScopeReleasesChannel ==
    /\ last.op = "__exit__" => (channel = None /\ last.result = "ok")
    /\ (last.op = "__enter__" /\ last.result = "ConnectionError")
          => created \notin open

\* C18: entering lock() on a connected client succeeds and leaves the client
\* holding a lock equal to the id the context yields; leaving the block on a
\* connected client, by its last statement or by an exception of the body,
\* leaves the client holding no lock.
C18_LockContextHoldsThenReleases ==
    [][ /\ (last'.op = "lock.__enter__" /\ channel # None)
            => /\ last'.result = "ok"
               /\ lock_id' # None
               /\ stack' # <<>>
               /\ Top(stack').kind = "lock"
               /\ Top(stack').lock_id = lock_id'
        /\ (last'.op = "lock.__exit__" /\ channel # None)
            => /\ last'.result = "ok"
               /\ lock_id' = None
               /\ stack' = Pop(stack) ]_vars

\* a lock() block whose body raised has been left, and the lock is gone
C18_Witness ==
    /\ last.op = "lock.__exit__"
    /\ last.result = "ok"
    /\ last.value = "propagates"
    /\ channel # None
    /\ lock_id = None
    /\ uuids > 0

\* C20: a str argument that starts with file://, http:// or https:// is
\* passed on unchanged; any other argument becomes a file:// uri of an
\* absolute path, with no "." or ".." left in it; and normalising the
\* result again gives the same value.
C20_UriNormalisation ==
    /\ sent # <<>>
          => IF ~uri.is_path /\ uri.head \in Schemes
             THEN sent[1] = uri
             ELSE /\ ~sent[1].is_path
                  /\ sent[1].head = "file://"
                  /\ Len(sent[1].segs) > 1
                  /\ sent[1].segs[1] = ""
                  /\ \A i \in 1..Len(sent[1].segs) :
                        sent[1].segs[i] \notin {".", ".."}
    /\ Len(sent) > 1 => sent[2] = sent[1]

\* the relative path "../b c" went out as file:///b%20c, twice
C20_Witness ==
    /\ uri = Text(FALSE, "", <<"..", "b c">>)
    /\ Len(sent) > 1
    /\ sent[1] = Text(FALSE, "file://", <<"", "b%20c">>)

\* where `flag` stands in the returned list (0: nowhere)
Pos(flag) ==
    IF \E i \in 1..Len(args) : args[i] = <<flag>>
    THEN CHOOSE i \in 1..Len(args) : args[i] = <<flag>>
    ELSE 0

\* a switch is in the list exactly when `cond`; a valued option is, and is
\* followed by `value`, exactly when `cond`
Switch(flag, cond) == (Pos(flag) > 0) <=> cond

Valued(flag, cond, value) ==
    /\ (Pos(flag) > 0) <=> cond
    /\ cond => Pos(flag) < Len(args) /\ args[Pos(flag) + 1] = value

FlagOrder ==
    <<"--sila-port", "--sila-ip", "--sila-insecure", "--headless",
      "--sila-uuid", "--sila-ca-cert", "--sila-cert", "--sila-key",
      "--sila-out-cert">>

\* the options present stand in the fixed order, and the list holds nothing
\* but "--sila", the flags present and the values of the valued ones
InOrderAndNothingElse ==
    /\ \A i, j \in 1..Len(FlagOrder) :
          (i < j /\ Pos(FlagOrder[i]) > 0 /\ Pos(FlagOrder[j]) > 0)
              => Pos(FlagOrder[i]) < Pos(FlagOrder[j])
    /\ Len(args) = 1
          + Cardinality({i \in 1..Len(FlagOrder) : Pos(FlagOrder[i]) > 0})
          + Cardinality({i \in {1, 2, 5, 6, 7, 8, 9} : Pos(FlagOrder[i]) > 0})

\* the list to_cli_args returned, given when the uuid option counts as set
CliArgsFollow(uuid_is_set) ==
    /\ args[1] = <<"--sila">>
    /\ config = SiLAConfig(DefaultPort, DefaultIp, FALSE, FALSE, Unset, Unset,
                           Unset, Unset, Unset)
          => args = <<<<"--sila">>>>
    /\ Valued("--sila-port", config.port # DefaultPort, str(config.port))
    /\ Valued("--sila-ip", config.ip # DefaultIp, config.ip)
    /\ Switch("--sila-insecure", config.insecure)
    /\ Switch("--headless", config.headless)
    /\ Valued("--sila-uuid", uuid_is_set, config.uuid.text)
    /\ Valued("--sila-ca-cert", ~config.ca_cert.none, str_path(config.ca_cert))
    /\ Valued("--sila-cert", ~config.cert.none, str_path(config.cert))
    /\ Valued("--sila-key", ~config.key.none, str_path(config.key))
    /\ Valued("--sila-out-cert", ~config.out_cert.none, str_path(config.out_cert))
    /\ InOrderAndNothingElse

\* C21: to_cli_args always starts with "--sila"; for an all-default config
\* it is exactly ["--sila"]; each option appears (flag, then its value for a
\* valued option) if and only if it differs from its default or is set (for
\* the Optional fields: is not None), in the order port, ip, insecure,
\* headless, uuid, ca-cert, cert, key, out-cert.
C21_OptionsAppearIffSet ==
    args # NoArgs => CliArgsFollow(~config.uuid.none)

\* C21 as amended: the same, with the uuid option appearing if and only if
\* uuid is a non-empty string (neither None nor "").
C21_OptionsAppearIffSetAndNonEmptyUuid ==
    args # NoArgs => CliArgsFollow(~config.uuid.none /\ config.uuid.text # <<>>)

\* to_cli_args has run on a config with every option set, a port that is not
\* the default, and a ca-cert given as Path("")
C21_Witness ==
    /\ config = SiLAConfig(DefaultPort + 1, <<"0.0.0.0">>, TRUE, TRUE,
                           Some(<<"test-uuid">>), Some(<<>>),
                           Some(<<"cert.pem">>), Some(<<"key.pem">>),
                           Some(<<"out.pem">>))
    /\ Len(args) > 1
    /\ args[3] = <<"5", "0", "0", "5", "2">>
    /\ args[Len(args)] = <<"out.pem">>

\* C22: after connect has failed with ConnectionError the client is
\* disconnected: it holds no channel (so every command fails with
\* "Not connected" until a later connect succeeds).
C22_FailedConnectLeavesDisconnected ==
    (last.op = "connect" /\ last.result = "ConnectionError")
        => /\ channel = None
           /\ Checks(channel, lock_id) = "NotConnected"

\* C23: whatever connects, disconnects, lock calls and lock contexts have
\* run, a held lock implies a connection (_lock_id is set only while
\* channel is set), so release_lock can run while a lock is held.
C23_HeldLockImpliesConnection ==
    lock_id # None => ensure_connected(channel)

\* C24: a held lock id is never replaced by another id without having been
\* released first, and when a lock() context inside another lock() context
\* has exited, the client still holds a lock for the outer body.
C24_HeldLockIsNotReplaced ==
    [][ /\ (lock_id # None /\ lock_id' # lock_id) => lock_id' = None
        /\ (/\ last'.op = "lock.__exit__"
            /\ stack' # <<>>
            /\ Top(stack').kind = "lock")
              => lock_id' # None ]_vars

====
